---- MODULE Spec2Model ----
(***************************************************************************)
(* Model of iohclustering/cluster_base.py: the problem builder             *)
(* (create_cluster_problem with its obj_func and retransform closures),    *)
(* the benchmark-data fetch (download_benchmark_datasets), the catalog     *)
(* lookup (get_problem_id), the resolver (get_problem) and the bulk loader *)
(* (load_problems).                                                        *)
(*                                                                         *)
(* Strings that matter for case are sequences of characters.  Real numbers *)
(* are exact rationals <<n, d>>; a denominator of 0 stands for the NaN/inf *)
(* numpy produces on a division by zero.                                   *)
(***************************************************************************)
EXTENDS Integers, Sequences, FiniteSets, TLC

VARIABLES cwdFiles, dirExists, dirFiles, call, ret, wrapped, out

vars == <<cwdFiles, dirExists, dirFiles, call, ret, wrapped, out>>

(***************************************************************************)
(* Bounds of the model.                                                    *)
(***************************************************************************)
MaxNameLen == 2
MaxK == 2
MaxF == 2

(***************************************************************************)
(* Strings.                                                                *)
(***************************************************************************)
Chars == {"a", "A", "b", "B"}

LowerChar(c) == IF c = "A" THEN "a" ELSE IF c = "B" THEN "b" ELSE c

\* str.lower()
lower(s) == [i \in 1..Len(s) |-> LowerChar(s[i])]

None == <<>>

NoError == "none"

(***************************************************************************)
(* The catalog and the metric registry (cluster_baseline_problems.py and   *)
(* cluster_metrics.py): a fixed id <-> lowercase-name table, the k-values  *)
(* of each dataset, and the registered metric names.                       *)
(***************************************************************************)
CLUSTER_BASELINE_DATASETS == (1 :> <<"a">>) @@ (2 :> <<"b">>) @@ (3 :> <<"a", "b">>)

BASELINE_K_DIMENTIONS == (<<"a">> :> <<1, 2>>) @@ (<<"b">> :> <<2>>) @@ (<<"a", "b">> :> <<1>>)

CLUSTER_METRICS == {"mse_euclidean"}

CatalogIds == DOMAIN CLUSTER_BASELINE_DATASETS

CatalogNames == {CLUSTER_BASELINE_DATASETS[i] : i \in CatalogIds}

\* CLUSTER_BASELINE_DATASETS.values(), in the dictionary's order
CatalogValues == [i \in 1..Cardinality(CatalogIds) |-> CLUSTER_BASELINE_DATASETS[i]]

(***************************************************************************)
(* numpy on exact rationals.                                               *)
(***************************************************************************)
SetMin(S) == CHOOSE m \in S : \A y \in S : m <= y

SetMax(S) == CHOOSE m \in S : \A y \in S : m >= y

\* np.size(data, axis=1)
NumCols(data) == Len(data[1])

\* np.min(data, axis=0)
ColMin(data) == [j \in 1..NumCols(data) |-> SetMin({data[r][j] : r \in 1..Len(data)})]

\* np.max(data, axis=0)
ColMax(data) == [j \in 1..NumCols(data) |-> SetMax({data[r][j] : r \in 1..Len(data)})]

\* np.repeat(v, k) in place of np.tile(v, k): every entry k times in a row
Tile_AsRepeat(v, k) == [p \in 1..(Len(v) * k) |-> v[((p - 1) \div k) + 1]]

RECURSIVE Tile(_, _)
\* np.tile(v, k): k copies of v, one after another
Tile(v, k) == IF k = 0 THEN <<>> ELSE v \o Tile(v, k - 1)

\* x.reshape(rows, cols), C order
Reshape(x, rows, cols) == [i \in 1..rows |-> SubSeq(x, (i - 1) * cols + 1, i * cols)]

\* (data - min) / (max - min), broadcast over the rows
Normalize(data, mn, mx) == [r \in 1..Len(data) |-> [j \in 1..NumCols(data) |-> <<data[r][j] - mn[j], mx[j] - mn[j]>>]]

\* q * a + b for a rational q and integers a, b
MulAdd(q, a, b) == <<q[1] * a + b * q[2], q[2]>>

RatEq(q, c) == q[2] # 0 /\ q[1] = c * q[2]

(***************************************************************************)
(* The file system: file names (without .txt) of the working directory and *)
(* of banchmark_datasets/, and the content of a file.                      *)
(***************************************************************************)
\* the strings callers pass
Names == UNION {[1..n -> Chars] : n \in 1..MaxNameLen}

Instances == {1, 2}

CwdCandidates == {<<"a">>, <<"b", "b">>}

DirCandidates == CatalogNames

ArchiveNames == CatalogNames

FileData(loc, name) == IF loc = "cwd" THEN <<<<0, 1>>, <<1, 3>>>> ELSE <<<<3>>, <<0>>>>

CustomLabel == <<"c", "u", "s", "t", "o", "m">>

StrRef(n) == [kind |-> "str", name |-> n]

ArrayRef(d) == [kind |-> "array", data |-> d]

StrMetric(m) == [kind |-> "str", name |-> m]

CallableMetric(m) == [kind |-> "callable", name |-> m]

\* line 12: the defaults of create_cluster_problem
DefaultInstance == 1

DefaultMetric == StrMetric("mse_euclidean")

(***************************************************************************)
(* get_problem_id                                                          *)
(***************************************************************************)
\* get_problem_id without line 163's lower()
get_problem_id_CaseSensitive(dataset_name) ==
    IF dataset_name \in {CLUSTER_BASELINE_DATASETS[i] : i \in DOMAIN CLUSTER_BASELINE_DATASETS}
    THEN [err |-> NoError, val |-> CHOOSE k \in DOMAIN CLUSTER_BASELINE_DATASETS : CLUSTER_BASELINE_DATASETS[k] = dataset_name]
    ELSE [err |-> "UnknownDatasetName", val |-> None]

get_problem_id(dataset_name) ==
    LET n == lower(dataset_name) IN
    IF n \in CatalogNames
    THEN [err |-> NoError, val |-> SetMin({k \in CatalogIds : CLUSTER_BASELINE_DATASETS[k] = n})]
    ELSE [err |-> "UnknownDatasetName", val |-> None]

(***************************************************************************)
(* create_cluster_problem                                                  *)
(***************************************************************************)
\* LoadDataset with the catalog consulted before the working directory
LoadDataset_CatalogFirst(dataset, cwd, dirF) ==
    IF dataset.kind = "str"
    THEN LET r == get_problem_id(dataset.name) IN
         IF r.err # NoError
         THEN [err |-> r.err, id |-> None]
         ELSE IF dataset.name \in cwd
              THEN [err |-> NoError, id |-> None, label |-> dataset.name,
                    src |-> [loc |-> "cwd", file |-> dataset.name],
                    data |-> FileData("cwd", dataset.name)]
              ELSE IF dataset.name \in dirF
                   THEN [err |-> NoError, id |-> <<r.val>>, label |-> dataset.name,
                         src |-> [loc |-> "bench", file |-> dataset.name],
                         data |-> FileData("bench", dataset.name)]
                   ELSE [err |-> "DatasetNotFound", id |-> <<r.val>>]
    ELSE [err |-> NoError, id |-> None, label |-> CustomLabel,
          src |-> [loc |-> "array", file |-> CustomLabel],
          data |-> dataset.data]

\* lines 54-64: the dataset reference to data, label and catalog id
LoadDataset(dataset, cwd, dirF) ==
    IF dataset.kind = "str"
    THEN IF dataset.name \in cwd
         THEN [err |-> NoError, id |-> None, label |-> dataset.name,
               src |-> [loc |-> "cwd", file |-> dataset.name],
               data |-> FileData("cwd", dataset.name)]
         ELSE LET r == get_problem_id(dataset.name) IN
              IF r.err # NoError
              THEN [err |-> r.err, id |-> None]
              ELSE IF dataset.name \in dirF
                   THEN [err |-> NoError, id |-> <<r.val>>, label |-> dataset.name,
                         src |-> [loc |-> "bench", file |-> dataset.name],
                         data |-> FileData("bench", dataset.name)]
                   ELSE [err |-> "DatasetNotFound", id |-> <<r.val>>]
    ELSE [err |-> NoError, id |-> None, label |-> CustomLabel,
          src |-> [loc |-> "array", file |-> CustomLabel],
          data |-> dataset.data]

\* ResolveMetric with an unregistered name falling back to the default metric
ResolveMetric_Lenient(error_metric) ==
    IF error_metric.kind = "str"
    THEN [err |-> NoError, metric |-> CallableMetric("mse_euclidean")]
    ELSE [err |-> NoError, metric |-> error_metric]

\* lines 66-70: a metric name to the registered metric
ResolveMetric(error_metric) ==
    IF error_metric.kind = "str"
    THEN IF error_metric.name \in CLUSTER_METRICS
         THEN [err |-> NoError, metric |-> CallableMetric(error_metric.name)]
         ELSE [err |-> "UnknownMetric"]
    ELSE [err |-> NoError, metric |-> error_metric]

\* lines 73-104, once the dataset and the metric are resolved
BuildProblem(ld, metric, k, instance) ==
    LET data_np == ld.data
        D == NumCols(data_np)
        data_min == Tile(ColMin(data_np), k)
        data_max == Tile(ColMax(data_np), k)
        data_normalized == Normalize(data_np, ColMin(data_np), ColMax(data_np))
        f == [name |-> [prefix |-> "Cluster", dataset |-> ld.label, k |-> k],
              instance |-> instance, dimension |-> k * D, lb |-> 0, ub |-> 1,
              id |-> ld.id, src |-> ld.src,
              metric |-> metric, data_normalized |-> data_normalized, k |-> k, D |-> D]
        retransform == [data_min |-> data_min, data_max |-> data_max, k |-> k]
    IN [err |-> NoError, f |-> f, retransform |-> retransform, wrapped |-> <<f>>]

Raise(e) == [err |-> e, f |-> None, retransform |-> None, wrapped |-> <<>>]

create_cluster_problem(dataset, k, instance, error_metric, cwd, dirF) ==
    LET ld == LoadDataset(dataset, cwd, dirF) IN
    IF ld.err # NoError THEN Raise(ld.err)
    ELSE LET m == ResolveMetric(error_metric) IN
         IF m.err # NoError THEN Raise(m.err)
         ELSE BuildProblem(ld, m.metric, k, instance)

\* the objective closure: what obj_func hands to the metric
obj_func(f, x) == [metric |-> f.metric, data |-> f.data_normalized, centers |-> Reshape(x, f.k, f.D)]

\* retransform scaling by data_max instead of (data_max - data_min)
retransform_ScaleByMax(rt, X) ==
    LET X2 == [p \in 1..Len(X) |-> MulAdd(X[p], rt.data_max[p], rt.data_min[p])]
    IN Reshape(X2, rt.k, Len(X2) \div rt.k)

\* the retransform closure
retransform(rt, X) ==
    LET X2 == [p \in 1..Len(X) |-> MulAdd(X[p], rt.data_max[p] - rt.data_min[p], rt.data_min[p])]
    IN Reshape(X2, rt.k, Len(X2) \div rt.k)

(***************************************************************************)
(* download_benchmark_datasets.  The remote side is the environment:       *)
(* outcome is how the fetch ends ("ok", "urlerror" when urlopen fails,     *)
(* "tarerror" when the extraction stops part-way) and extracted the files  *)
(* the extraction wrote before it ended.                                   *)
(***************************************************************************)
Outcomes == {"ok", "urlerror", "tarerror"}

\* line 129: the early return
SkipDownload(isdir, warn) == isdir /\ warn

download_benchmark_datasets(warn, dirE, dirF, outcome, extracted) ==
    IF SkipDownload(dirE, warn)
    THEN [err |-> NoError, fetched |-> FALSE, dirExists |-> dirE, dirFiles |-> dirF]
    ELSE IF outcome = "urlerror"
         THEN [err |-> "RemoteFetchFailure", fetched |-> TRUE, dirExists |-> TRUE, dirFiles |-> dirF]
         ELSE [err |-> IF outcome = "ok" THEN NoError ELSE "RemoteFetchFailure",
               fetched |-> TRUE, dirExists |-> TRUE, dirFiles |-> dirF \cup extracted]

(***************************************************************************)
(* get_problem                                                             *)
(***************************************************************************)
IntFid(i) == [kind |-> "int", val |-> i]

StrFid(n) == [kind |-> "str", name |-> n]

get_problem(fid, instance, k, cwd, dirF) ==
    LET r == IF fid.kind = "str" THEN get_problem_id(fid.name) ELSE [err |-> NoError, val |-> fid.val] IN
    IF r.err # NoError THEN Raise(r.err)
    ELSE IF r.val \notin CatalogIds THEN Raise("UnknownDatasetId")
    ELSE create_cluster_problem(StrRef(CLUSTER_BASELINE_DATASETS[r.val]), k, instance,
                                CallableMetric("mse_euclidean"), cwd, dirF)

(***************************************************************************)
(* load_problems                                                           *)
(***************************************************************************)
RECURSIVE LoadKs(_, _, _, _, _)
\* lines 239-241: the loop over the k-values of one dataset
LoadKs(dataset, ks, acc, cwd, dirF) ==
    IF ks = <<>> \/ acc.err # NoError THEN acc
    ELSE LET r == create_cluster_problem(StrRef(dataset), Head(ks), DefaultInstance, DefaultMetric, cwd, dirF) IN
         IF r.err # NoError
         THEN [acc EXCEPT !.err = r.err]
         ELSE LoadKs(dataset, Tail(ks),
                     [err |-> NoError,
                      problems |-> (r.f.name :> <<r.f, r.retransform>>) @@ acc.problems,
                      wrapped |-> acc.wrapped \o r.wrapped],
                     cwd, dirF)

RECURSIVE LoadDatasets(_, _, _, _)
\* lines 237-238: the loop over the catalog, skipping the datasets without a file
LoadDatasets(datasets, acc, cwd, dirF) ==
    IF datasets = <<>> \/ acc.err # NoError THEN acc
    ELSE LoadDatasets(Tail(datasets),
                      IF Head(datasets) \in dirF
                      THEN LoadKs(Head(datasets), BASELINE_K_DIMENTIONS[Head(datasets)], acc, cwd, dirF)
                      ELSE acc,
                      cwd, dirF)

load_problems(cwd, dirE, dirF, outcome, extracted) ==
    LET dl == download_benchmark_datasets(FALSE, dirE, dirF, outcome, extracted) IN
    IF dl.err # NoError
    THEN [err |-> dl.err, problems |-> <<>>, wrapped |-> <<>>, dl |-> dl]
    ELSE LET r == LoadDatasets(CatalogValues, [err |-> NoError, problems |-> <<>>, wrapped |-> <<>>], cwd, dl.dirFiles)
         IN [err |-> r.err, problems |-> r.problems, wrapped |-> r.wrapped, dl |-> dl]

(***************************************************************************)
(* The inputs of the calls.                                                *)
(***************************************************************************)
KValues == 1..MaxK

MetricArgs == {StrMetric("mse_euclidean"), StrMetric("bogus"), CallableMetric("user")}

FidArgs == {IntFid(i) : i \in 0..(Cardinality(CatalogIds) + 1)} \cup {StrFid(n) : n \in Names}

\* two-row datasets, column by column; <<2, 2>> is a constant feature
Columns == {<<0, 1>>, <<1, 3>>, <<3, 0>>, <<2, 2>>}

Datasets == UNION {{[r \in 1..Len(cols[1]) |-> [j \in 1..F |-> cols[j][r]]] : cols \in [1..F -> Columns]} : F \in 1..MaxF}

XValues == {<<0, 1>>, <<1, 2>>}

CenterValues == {0, 2}

NoCall == [op |-> "none"]

(***************************************************************************)
(* The state machine: one action per call.                                 *)
(***************************************************************************)
TypeOK ==
    /\ cwdFiles \subseteq CwdCandidates
    /\ dirExists \in BOOLEAN
    /\ dirFiles \subseteq DirCandidates
    /\ (~dirExists => dirFiles = {})

Init ==
    /\ cwdFiles \in SUBSET CwdCandidates
    /\ dirExists \in BOOLEAN
    /\ dirFiles \in SUBSET DirCandidates
    /\ (~dirExists => dirFiles = {})
    /\ call = NoCall
    /\ ret = NoCall
    /\ wrapped = <<>>
    /\ out = NoCall

\* a call starts once the caller has dropped the previous call's result
Idle == call = NoCall

CreateCall(dataset, k, instance, error_metric) ==
    [op |-> "create_cluster_problem", dataset |-> dataset, k |-> k,
     instance |-> instance, error_metric |-> error_metric]

\* the instance is left to its default
CreateFromName ==
    \E n \in Names, k \in KValues, m \in MetricArgs :
        LET r == create_cluster_problem(StrRef(n), k, DefaultInstance, m, cwdFiles, dirFiles) IN
        /\ Idle
        /\ call' = CreateCall(StrRef(n), k, DefaultInstance, m)
        /\ ret' = [err |-> r.err, f |-> r.f, retransform |-> r.retransform]
        /\ wrapped' = r.wrapped
        /\ out' = NoCall
        /\ UNCHANGED <<cwdFiles, dirExists, dirFiles>>

\* the instance is left to its default
CreateFromArray ==
    \E d \in Datasets, k \in KValues, m \in MetricArgs :
        LET r == create_cluster_problem(ArrayRef(d), k, DefaultInstance, m, cwdFiles, dirFiles) IN
        /\ Idle
        /\ call' = CreateCall(ArrayRef(d), k, DefaultInstance, m)
        /\ ret' = [err |-> r.err, f |-> r.f, retransform |-> r.retransform]
        /\ wrapped' = r.wrapped
        /\ out' = NoCall
        /\ UNCHANGED <<cwdFiles, dirExists, dirFiles>>

Download ==
    \E warn \in BOOLEAN, outcome \in Outcomes, extracted \in SUBSET ArchiveNames :
        LET r == download_benchmark_datasets(warn, dirExists, dirFiles, outcome, extracted) IN
        /\ Idle
        /\ call' = [op |-> "download_benchmark_datasets", warn |-> warn,
                    dirBefore |-> dirExists, filesBefore |-> dirFiles, fetched |-> r.fetched]
        /\ ret' = [err |-> r.err]
        /\ wrapped' = <<>>
        /\ dirExists' = r.dirExists
        /\ dirFiles' = r.dirFiles
        /\ out' = NoCall
        /\ UNCHANGED cwdFiles

GetProblemId ==
    \E n \in Names :
        /\ Idle
        /\ call' = [op |-> "get_problem_id", dataset_name |-> n]
        /\ ret' = get_problem_id(n)
        /\ wrapped' = <<>>
        /\ out' = NoCall
        /\ UNCHANGED <<cwdFiles, dirExists, dirFiles>>

GetProblem ==
    \E fid \in FidArgs, i \in Instances, k \in KValues :
        LET r == get_problem(fid, i, k, cwdFiles, dirFiles) IN
        /\ Idle
        /\ call' = [op |-> "get_problem", fid |-> fid, instance |-> i, k |-> k]
        /\ ret' = [err |-> r.err, f |-> r.f, retransform |-> r.retransform]
        /\ wrapped' = r.wrapped
        /\ out' = NoCall
        /\ UNCHANGED <<cwdFiles, dirExists, dirFiles>>

LoadProblems ==
    \E outcome \in Outcomes, extracted \in SUBSET ArchiveNames :
        LET r == load_problems(cwdFiles, dirExists, dirFiles, outcome, extracted) IN
        /\ Idle
        /\ call' = [op |-> "load_problems", dirBefore |-> dirExists,
                    filesBefore |-> dirFiles, fetched |-> r.dl.fetched]
        /\ ret' = [err |-> r.err, problems |-> r.problems]
        /\ wrapped' = r.wrapped
        /\ dirExists' = r.dl.dirExists
        /\ dirFiles' = r.dl.dirFiles
        /\ out' = NoCall
        /\ UNCHANGED cwdFiles

\* the caller drops what the last call returned
Discard ==
    /\ ~Idle
    /\ call' = NoCall
    /\ ret' = NoCall
    /\ wrapped' = <<>>
    /\ out' = NoCall
    /\ UNCHANGED <<cwdFiles, dirExists, dirFiles>>

Next ==
    \/ CreateFromName
    \/ CreateFromArray
    \/ Download
    \/ GetProblemId
    \/ GetProblem
    \/ LoadProblems
    \/ Discard

Spec == Init /\ [][Next]_vars

(***************************************************************************)
(* The numerical pipeline on its own: a problem is built from an array     *)
(* with the default instance and metric, and its two closures are called.  *)
(***************************************************************************)
Built == call.op = "create_cluster_problem" /\ ret.err = NoError

\* the flat vectors of the search space of the built problem
FlatVectors == [1..ret.f.dimension -> XValues]

\* (k, D) center matrices in the dataset's own scale
CenterMatrices == [1..ret.f.k -> [1..ret.f.D -> CenterValues]]

\* C.flatten(), C order
RECURSIVE Flatten(_)
Flatten(m) == IF m = <<>> THEN <<>> ELSE Head(m) \o Flatten(Tail(m))

\* (C - min) / (max - min), the normalization of line 78 applied to centers
NormalizeCenters(C, data) == Normalize(C, ColMin(data), ColMax(data))

InitNum ==
    /\ cwdFiles = {}
    /\ dirExists = FALSE
    /\ dirFiles = {}
    /\ call = NoCall
    /\ ret = NoCall
    /\ wrapped = <<>>
    /\ out = NoCall

CallObjFunc ==
    /\ Built
    /\ out = NoCall
    /\ \E x \in FlatVectors :
           out' = [op |-> "obj_func", x |-> x, result |-> obj_func(ret.f, x)]
    /\ UNCHANGED <<cwdFiles, dirExists, dirFiles, call, ret, wrapped>>

CallRetransform ==
    /\ Built
    /\ out = NoCall
    /\ \E X \in FlatVectors :
           out' = [op |-> "retransform", X |-> X, result |-> retransform(ret.retransform, X)]
    /\ UNCHANGED <<cwdFiles, dirExists, dirFiles, call, ret, wrapped>>

\* retransform(flatten(normalize(C)))
RoundTrip ==
    /\ Built
    /\ out = NoCall
    /\ \E C \in CenterMatrices :
           LET X == Flatten(NormalizeCenters(C, call.dataset.data)) IN
           out' = [op |-> "roundtrip", C |-> C, X |-> X, result |-> retransform(ret.retransform, X)]
    /\ UNCHANGED <<cwdFiles, dirExists, dirFiles, call, ret, wrapped>>

NextNum ==
    \/ CreateFromArray
    \/ CallObjFunc
    \/ CallRetransform
    \/ RoundTrip
    \/ Discard

SpecNum == InitNum /\ [][NextNum]_vars

(***************************************************************************)
(* Properties.                                                             *)
(***************************************************************************)
CreateCalled == call.op = "create_cluster_problem"

FetchCalled == call.op \in {"download_benchmark_datasets", "load_problems"}

\* feature j's smallest and largest value in the dataset
FeatureMin(data, j) == SetMin({data[r][j] : r \in 1..Len(data)})

FeatureMax(data, j) == SetMax({data[r][j] : r \in 1..Len(data)})

\* every feature has max > min
NonDegenerate(data) == \A j \in 1..Len(data[1]) : FeatureMax(data, j) > FeatureMin(data, j)

\* s is an upper/lower-case spelling of the lowercase name n
CaseVariant(s, n) ==
    /\ Len(s) = Len(n)
    /\ \A i \in 1..Len(n) : s[i] = n[i] \/ <<n[i], s[i]>> \in {<<"a", "A">>, <<"b", "B">>}

InCatalog(s) == \E i \in CatalogIds : CaseVariant(s, CLUSTER_BASELINE_DATASETS[i])

\* the names load_problems gives the problems of the datasets in S
ExpectedKeys(S) ==
    UNION {{[prefix |-> "Cluster", dataset |-> d, k |-> BASELINE_K_DIMENTIONS[d][i]] :
                i \in DOMAIN BASELINE_K_DIMENTIONS[d]} : d \in S \cap CatalogNames}

\* C1: for a dataset whose features all have max > min, retransform applied
\* to the row-major flattening of the per-feature normalization of a (k, F)
\* center matrix C returns a (k, F) matrix with the entries of C.
C1_RoundTrip ==
    (out.op = "roundtrip" /\ NonDegenerate(call.dataset.data)) =>
        /\ Len(out.result) = call.k
        /\ \A i \in 1..call.k :
              /\ Len(out.result[i]) = Len(call.dataset.data[1])
              /\ \A j \in 1..Len(call.dataset.data[1]) : RatEq(out.result[i][j], out.C[i][j])

C1_Witness ==
    /\ out.op = "roundtrip"
    /\ NonDegenerate(call.dataset.data)
    /\ call.k >= 2
    /\ Len(call.dataset.data[1]) >= 2
    /\ FeatureMin(call.dataset.data, 1) # FeatureMin(call.dataset.data, 2)
    /\ out.C[1][1] # out.C[1][2]
    /\ out.C[1][1] # out.C[2][1]
    /\ RatEq(out.result[2][1], out.C[2][1])

\* C2: create_cluster_problem on a dataset with a constant feature column
\* fails with DegenerateFeature and hands no problem to the framework.
C2_DegenerateFeatureRaised ==
    (/\ CreateCalled
     /\ call.dataset.kind = "array"
     /\ ~NonDegenerate(call.dataset.data)
     /\ (call.error_metric.kind = "str" => call.error_metric.name \in CLUSTER_METRICS)) =>
        (ret.err = "DegenerateFeature" /\ Len(wrapped) = 0)

\* C3: a call of download_benchmark_datasets or load_problems starts a
\* remote fetch only when it finds the benchmark-data directory absent.
C3_FetchOnlyWhenAbsent ==
    (FetchCalled /\ call.fetched) => ~call.dirBefore

\* C4: load_problems raises no error and returns a mapping whose keys are
\* exactly the names Cluster_{d}_k{k} of the catalog datasets d with a file
\* in the benchmark-data directory and their k-values.
C4_PartialAvailability ==
    (call.op = "load_problems") =>
        IF call.dirBefore
        THEN ret.err = NoError /\ DOMAIN ret.problems = ExpectedKeys(call.filesBefore)
        ELSE ret.err = NoError => DOMAIN ret.problems = ExpectedKeys(dirFiles)

\* C5: create_cluster_problem with a dataset reference that loads and a
\* metric name outside the registry fails with UnknownMetric and hands no
\* problem to the registration framework.
C5_MetricFailure ==
    (/\ CreateCalled
     /\ call.error_metric.kind = "str"
     /\ call.error_metric.name \notin CLUSTER_METRICS
     /\ \/ call.dataset.kind = "array"
        \/ call.dataset.name \in cwdFiles
        \/ (InCatalog(call.dataset.name) /\ call.dataset.name \in dirFiles)) =>
        (ret.err = "UnknownMetric" /\ Len(wrapped) = 0)

C5_Witness ==
    /\ CreateCalled
    /\ call.error_metric = StrMetric("bogus")
    /\ call.dataset.kind = "str"
    /\ call.dataset.name \notin cwdFiles
    /\ call.dataset.name \in dirFiles
    /\ ret.err = "UnknownMetric"

\* C6: get_problem_id maps every catalog name to its own id, maps every
\* upper/lower-case spelling of a catalog name to an id whose name is that
\* catalog name, and fails with the unknown-dataset-name error otherwise.
C6_CatalogBijection ==
    (call.op = "get_problem_id") =>
        /\ \A id \in CatalogIds :
              (call.dataset_name = CLUSTER_BASELINE_DATASETS[id]) => (ret.err = NoError /\ ret.val = id)
        /\ \A id \in CatalogIds :
              CaseVariant(call.dataset_name, CLUSTER_BASELINE_DATASETS[id]) =>
                  (ret.err = NoError /\ CLUSTER_BASELINE_DATASETS[ret.val] = CLUSTER_BASELINE_DATASETS[id])
        /\ ~InCatalog(call.dataset_name) => ret.err = "UnknownDatasetName"

C6_Witness ==
    /\ call.op = "get_problem_id"
    /\ call.dataset_name = <<"A", "b">>
    /\ ret.err = NoError
    /\ ret.val \in CatalogIds
    /\ CLUSTER_BASELINE_DATASETS[ret.val] = <<"a", "b">>

\* C7 as stated: a string reference with no file in the working directory
\* and none in the benchmark-data directory fails with DatasetNotFound,
\* whether or not the string is a catalog name.
C7_AlwaysDatasetNotFound ==
    (/\ CreateCalled
     /\ call.dataset.kind = "str"
     /\ call.dataset.name \notin cwdFiles
     /\ call.dataset.name \notin dirFiles) =>
        ret.err = "DatasetNotFound"

\* C7 as amended: such a reference fails with DatasetNotFound when the
\* string is a spelling of a catalog name and with the unknown-dataset-name
\* error when it is not; a working-directory file is loaded without the
\* catalog being consulted, whether or not the string is a catalog name.
C7_LoaderFailure ==
    (CreateCalled /\ call.dataset.kind = "str") =>
        /\ (call.dataset.name \notin cwdFiles /\ call.dataset.name \notin dirFiles) =>
              ret.err = IF InCatalog(call.dataset.name) THEN "DatasetNotFound" ELSE "UnknownDatasetName"
        /\ (call.dataset.name \in cwdFiles) =>
              /\ ret.err \in {NoError, "UnknownMetric"}
              /\ ret.err = NoError =>
                    /\ ret.f.src = [loc |-> "cwd", file |-> call.dataset.name]
                    /\ ret.f.id = None

C7_Witness ==
    /\ CreateCalled
    /\ call.dataset.kind = "str"
    /\ call.dataset.name \notin cwdFiles
    /\ call.dataset.name \notin dirFiles
    /\ ~InCatalog(call.dataset.name)
    /\ ret.err = "UnknownDatasetName"

\* C8: obj_func hands the metric the (k, D) matrix with entry (i, j) =
\* x[i*D + j], and retransform returns the (k, D) matrix with entry (i, j) =
\* x[i*D + j] * (max_j - min_j) + min_j (indices from 0; from 1 below).
C8_RowMajorLayout ==
    (out.op \in {"obj_func", "retransform"}) =>
        LET data == call.dataset.data
            D == Len(data[1])
            m == IF out.op = "obj_func" THEN out.result.centers ELSE out.result
        IN /\ Len(m) = call.k
           /\ \A i \in 1..call.k :
                 /\ Len(m[i]) = D
                 /\ \A j \in 1..D :
                       m[i][j] = IF out.op = "obj_func"
                                 THEN out.x[(i - 1) * D + j]
                                 ELSE MulAdd(out.X[(i - 1) * D + j],
                                             FeatureMax(data, j) - FeatureMin(data, j),
                                             FeatureMin(data, j))

C8_Witness ==
    /\ out.op = "retransform"
    /\ call.k >= 2
    /\ Len(call.dataset.data[1]) >= 2
    /\ FeatureMin(call.dataset.data, 1) # FeatureMin(call.dataset.data, 2)
    /\ out.X[1] # out.X[2]
    /\ out.X[2] # out.X[3]
    /\ out.result[2][1] = MulAdd(out.X[3],
                                 FeatureMax(call.dataset.data, 1) - FeatureMin(call.dataset.data, 1),
                                 FeatureMin(call.dataset.data, 1))

\* C9: a problem returned by get_problem for catalog id i (given as the
\* integer or as a spelling of its name) has id i attached and is built
\* from the file of that name in the benchmark-data directory.
C9_CatalogIdentity ==
    (call.op = "get_problem" /\ ret.err = NoError) =>
        LET i == IF call.fid.kind = "int" THEN call.fid.val
                 ELSE CHOOSE c \in CatalogIds : CaseVariant(call.fid.name, CLUSTER_BASELINE_DATASETS[c])
        IN /\ ret.f.id = <<i>>
           /\ ret.f.src = [loc |-> "bench", file |-> CLUSTER_BASELINE_DATASETS[i]]

\* C10: a download_benchmark_datasets or load_problems call that ends in a
\* fetch or extraction failure leaves the benchmark-data directory as it
\* was before the call.
C10_FailedFetchLeavesDirectory ==
    (FetchCalled /\ ret.err = "RemoteFetchFailure") =>
        (dirExists = call.dirBefore /\ dirFiles = call.filesBefore)

====
